---- MODULE Spec2Model ----
(***************************************************************************)
(* The covariance aggregate function of                                    *)
(* src/common/functions/src/aggregates/aggregate_covariance.rs:            *)
(* AggregateCovarianceState (count, co_moments, left_mean, right_mean),    *)
(* its add / merge, and the AggregateFunction operations built on them     *)
(* (init_state, accumulate, accumulate_keys, serialize, deserialize,       *)
(* merge, merge_result), acting on states placed in an arena.              *)
(*                                                                         *)
(* Numbers.  count is an unsigned word of FieldBytes bytes; the three      *)
(* other fields are binary floating point numbers of FieldBytes bytes.     *)
(* The source has bytes of 8 bits (u64, IEEE binary64); the model has      *)
(* bytes of ByteBits bits, so that a word fits the model checker's         *)
(* integers: count is computed modulo 2^(FieldBytes*ByteBits), and a       *)
(* float is an IEEE-754 number with a sign bit, MantBits fraction bits and *)
(* the remaining bits of exponent, with subnormals, signed zeros,          *)
(* infinities, NaN and round-to-nearest-even.                              *)
(* When exact is TRUE the float operations are instead the operations of   *)
(* the rational numbers: the "exact arithmetic" in which the source's      *)
(* comments state the formulas of add and merge.                           *)
(***************************************************************************)
EXTENDS Integers, Sequences, FiniteSets, TLC

VARIABLES
    exact,      \* TRUE: the f64 operations are exact (rationals); FALSE: rounded
    build,      \* integer overflow in this build: "checked" (it panics) or
                \* "wrapping"; "any" until the run meets its first overflow
    mem,        \* the arena: state address -> AggregateCovarianceState
    wire,       \* the byte buffer serialize wrote last
    status,     \* how the last call ended: "ok", "err" (an Err result) or "panic"
    ops,        \* number of calls made
    call,       \* the call that ends the run (the MaxOps-th): operation,
                \* arguments, returned value
    pre,        \* mem as it was before that call
    input,      \* split-and-merge runs: the sequence of row pairs to aggregate
    pos,        \* split-and-merge runs: number of rows of input accumulated
    role,       \* split-and-merge runs: per state, "fresh", "partial" or "retired"
    obs         \* split-and-merge runs: per state, the indices of the rows of
                \* input it has absorbed

vars == <<exact, build, mem, wire, status, ops, call, pre, input, pos, role, obs>>

---------------------------------------------------------------------------
(* Bounds of the model *)

ByteBits == 2       \* bits per byte of the model (the source has 8)
MantBits == 2       \* fraction bits of a float of the model (binary64 has 52)
MaxRows == 2        \* longest batch
MaxOps == 2         \* calls per run
MaxInput == 3       \* longest input of a split-and-merge run
MaxMean == 2        \* largest mean of a sampled state

(* The width of a field: u64 and f64 are 8 bytes each *)
FieldBytes == 8

WordBits == FieldBytes * ByteBits
ByteMod == 2 ^ ByteBits
U64Mod == 2 ^ WordBits
U64Max == U64Mod - 1
Precision == MantBits + 1
ExpBits == WordBits - 1 - MantBits
ExpMax == 2 ^ ExpBits - 1
Bias == 2 ^ (ExpBits - 1) - 1
MinExp2 == 1 - Bias - MantBits

---------------------------------------------------------------------------
(* Exact arithmetic: rationals num/den in lowest terms, den > 0;           *)
(* 1/0 and -1/0 are the infinities, 0/0 is NaN.                            *)

Abs(x) == IF x < 0 THEN -x ELSE x

RECURSIVE Gcd(_, _)
Gcd(a, b) == IF b = 0 THEN a ELSE Gcd(b, a % b)

Rat(n, d) ==
    IF d = 0
    THEN [num |-> (IF n > 0 THEN 1 ELSE IF n < 0 THEN -1 ELSE 0), den |-> 0]
    ELSE LET g == Gcd(Abs(n), Abs(d))
             s == IF d < 0 THEN -1 ELSE 1
         IN  [num |-> s * (n \div g), den |-> s * (d \div g)]

QNeg(a) == [num |-> -a.num, den |-> a.den]

QAdd(a, b) ==
    IF a.den = 0 /\ b.den = 0
    THEN (IF a.num = b.num THEN a ELSE Rat(0, 0))
    ELSE Rat(a.num * b.den + b.num * a.den, a.den * b.den)

QMul(a, b) == Rat(a.num * b.num, a.den * b.den)

QDiv(a, b) ==
    IF b.num < 0
    THEN QNeg(Rat(a.num * b.den, a.den * (-b.num)))
    ELSE Rat(a.num * b.den, a.den * b.num)

QLt(a, b) == a.num * b.den < b.num * a.den

---------------------------------------------------------------------------
(* Rounded arithmetic: a float is its three bit fields.                    *)

F(s, e, m) == [sign |-> s, exp |-> e, man |-> m]
FZero(s) == F(s, 0, 0)
FInf(s) == F(s, ExpMax, 0)
FNaN == F(0, ExpMax, 2 ^ (MantBits - 1))
IsNaN(f) == f.exp = ExpMax /\ f.man # 0
IsInf(f) == f.exp = ExpMax /\ f.man = 0
IsZero(f) == f.exp = 0 /\ f.man = 0

(* A finite float is Sig(f) * 2^Exp2(f) *)
Sig(f) == IF f.exp = 0 THEN f.man ELSE 2 ^ MantBits + f.man
Exp2(f) == (IF f.exp = 0 THEN 1 ELSE f.exp) - Bias - MantBits

RECURSIVE BitLen(_)
BitLen(n) == IF n = 0 THEN 0 ELSE 1 + BitLen(n \div 2)

(* The float nearest to sig * 2^x (ties to even); with sticky, to a value  *)
(* strictly between sig * 2^x and (sig+1) * 2^x, sig then having at least  *)
(* Precision + 2 bits.  xt is the exponent of the last place of the        *)
(* result, sh the number of bits of sig below it, q the rounded            *)
(* significand.                                                            *)
Pack(s, e, m) == IF e >= ExpMax THEN FInf(s) ELSE F(s, e, m)

Normal(s, q, xt) ==
    IF q < 2 ^ MantBits THEN F(s, 0, q)
    ELSE IF q = 2 ^ Precision THEN Pack(s, xt + MantBits + Bias + 1, 0)
    ELSE Pack(s, xt + MantBits + Bias, q - 2 ^ MantBits)

RoundCut(s, q0, r, half, sticky, xt) ==
    Normal(s,
           IF r > half \/ (r = half /\ (sticky \/ q0 % 2 = 1)) THEN q0 + 1 ELSE q0,
           xt)

RoundShift(s, sig, sticky, xt, sh, L) ==
    IF sh <= 0 THEN Normal(s, sig * 2 ^ (-sh), xt)
    ELSE IF sh > L + 1 THEN Normal(s, 0, xt)
    ELSE RoundCut(s, sig \div 2 ^ sh, sig % 2 ^ sh, 2 ^ (sh - 1), sticky, xt)

RoundTo(s, sig, x, sticky, xt, L) == RoundShift(s, sig, sticky, xt, xt - x, L)

RoundLen(s, sig, x, sticky, L) ==
    RoundTo(s, sig, x, sticky,
            IF L - 1 + x < 1 - Bias THEN MinExp2 ELSE L - 1 + x - MantBits, L)

RoundPack(s, sig, x, sticky) ==
    IF sig = 0 THEN FZero(s) ELSE RoundLen(s, sig, x, sticky, BitLen(sig))

FNeg(f) == [f EXCEPT !.sign = 1 - f.sign]

(* The sum of two finite floats: S * 2^x exactly *)
FAddSum(S, x) ==
    IF S = 0 THEN FZero(0)
    ELSE RoundPack(IF S < 0 THEN 1 ELSE 0, Abs(S), x, FALSE)

(* ... hi the one of the larger exponent, d the difference of exponents *)
FAddOrdered(hi, lo, d) ==
    IF d >= 2 * Precision + 2
    THEN RoundPack(hi.sign,
                   IF hi.sign = lo.sign THEN Sig(hi) * 2 ^ (Precision + 2)
                                        ELSE Sig(hi) * 2 ^ (Precision + 2) - 1,
                   Exp2(hi) - (Precision + 2), TRUE)
    ELSE FAddSum((IF hi.sign = 1 THEN -(Sig(hi) * 2 ^ d) ELSE Sig(hi) * 2 ^ d)
                    + (IF lo.sign = 1 THEN -Sig(lo) ELSE Sig(lo)),
                 Exp2(lo))

FAddFinite(a, b) ==
    IF Sig(a) = 0 /\ Sig(b) = 0
    THEN FZero(IF a.sign = 1 /\ b.sign = 1 THEN 1 ELSE 0)
    ELSE IF Sig(a) = 0 THEN b
    ELSE IF Sig(b) = 0 THEN a
    ELSE IF Exp2(a) >= Exp2(b) THEN FAddOrdered(a, b, Exp2(a) - Exp2(b))
    ELSE FAddOrdered(b, a, Exp2(b) - Exp2(a))

FAdd(a, b) ==
    IF IsNaN(a) \/ IsNaN(b) THEN FNaN
    ELSE IF IsInf(a) /\ IsInf(b) THEN (IF a.sign = b.sign THEN a ELSE FNaN)
    ELSE IF IsInf(a) THEN a
    ELSE IF IsInf(b) THEN b
    ELSE FAddFinite(a, b)

FMul(a, b) ==
    IF IsNaN(a) \/ IsNaN(b) THEN FNaN
    ELSE IF IsInf(a) \/ IsInf(b)
    THEN (IF IsZero(a) \/ IsZero(b) THEN FNaN
          ELSE FInf(IF a.sign = b.sign THEN 0 ELSE 1))
    ELSE RoundPack(IF a.sign = b.sign THEN 0 ELSE 1,
                   Sig(a) * Sig(b), Exp2(a) + Exp2(b), FALSE)

(* The quotient of two finite nonzero floats, from k extra bits of it *)
FDivFinite(s, a, b, k) ==
    RoundPack(s, (Sig(a) * 2 ^ k) \div Sig(b), Exp2(a) - Exp2(b) - k,
              (Sig(a) * 2 ^ k) % Sig(b) # 0)

FDivSigned(s, a, b) ==
    IF IsNaN(a) \/ IsNaN(b) THEN FNaN
    ELSE IF IsInf(a) THEN (IF IsInf(b) THEN FNaN ELSE FInf(s))
    ELSE IF IsInf(b) THEN FZero(s)
    ELSE IF IsZero(b) THEN (IF IsZero(a) THEN FNaN ELSE FInf(s))
    ELSE IF IsZero(a) THEN FZero(s)
    ELSE FDivFinite(s, a, b, 2 * Precision + 2)

FDiv(a, b) == FDivSigned(IF a.sign = b.sign THEN 0 ELSE 1, a, b)

FNegative(d) == ~IsNaN(d) /\ ~IsZero(d) /\ d.sign = 1

FLt(a, b) == ~IsNaN(a) /\ ~IsNaN(b) /\ FNegative(FAdd(a, FNeg(b)))

(* The float nearest to the ratio n/d of two positive integers *)
FRatio(n, d) ==
    LET k == BitLen(d) + Precision + 2
    IN  RoundPack(0, (n * 2 ^ k) \div d, -k, (n * 2 ^ k) % d # 0)

---------------------------------------------------------------------------
(* The f64 operations of the source, in the arithmetic of the run *)

F64Zero == IF exact THEN Rat(0, 1) ELSE FZero(0)
F64Infinity == IF exact THEN Rat(1, 0) ELSE FInf(0)
F64Lit(n, d) == IF exact THEN Rat(n, d) ELSE FRatio(n, d)
F64FromU64(n) == IF exact THEN Rat(n, 1) ELSE IF n = 0 THEN FZero(0) ELSE RoundPack(0, n, 0, FALSE)
F64Add(a, b) == IF exact THEN QAdd(a, b) ELSE FAdd(a, b)
F64Sub(a, b) == IF exact THEN QAdd(a, QNeg(b)) ELSE FAdd(a, FNeg(b))
F64Mul(a, b) == IF exact THEN QMul(a, b) ELSE FMul(a, b)
F64Div(a, b) == IF exact THEN QDiv(a, b) ELSE FDiv(a, b)
F64Lt(a, b) == IF exact THEN QLt(a, b) ELSE FLt(a, b)

---------------------------------------------------------------------------
(* AggregateCovarianceState and its methods *)

State(c, co, l, r) == [count |-> c, co_moments |-> co, left_mean |-> l, right_mean |-> r]

(* self.count += 1 overflows *)
add_overflows(self) == self.count + 1 > U64Max

add(self, s, t) ==
    LET left_delta == F64Sub(s, self.left_mean)
        right_delta == F64Sub(t, self.right_mean)
        count == (self.count + 1) % U64Mod
        new_left_mean == F64Add(self.left_mean, F64Div(left_delta, F64FromU64(count)))
        new_right_mean == F64Add(self.right_mean, F64Div(right_delta, F64FromU64(count)))
    IN  State(count,
              F64Add(self.co_moments,
                     F64Mul(F64Sub(s, new_left_mean), F64Sub(t, self.right_mean))),
              new_left_mean,
              new_right_mean)

left_sum(self) == F64Mul(F64FromU64(self.count), self.left_mean)

right_sum(self) == F64Mul(F64FromU64(self.count), self.right_mean)

Min(a, b) == IF a <= b THEN a ELSE b
Max(a, b) == IF a >= b THEN a ELSE b

large_and_comparable(a, b) ==
    IF a = 0 \/ b = 0 THEN FALSE
    ELSE LET sensitivity == F64Lit(1, 1000)
             threshold == F64Lit(10000, 1)
             min == F64FromU64(Min(a, b))
             max == F64FromU64(Max(a, b))
         IN  /\ F64Lt(F64Sub(F64Lit(1, 1), F64Div(min, max)), sensitivity)
             /\ F64Lt(threshold, min)

(* self.count + other.count overflows *)
merge_overflows(self, other) == self.count + other.count > U64Max

(* merge with a fault: the product of the deltas left out of co_moments;   *)
(* the right mean moved by the left delta; no early return for two empty   *)
(* states.                                                                 *)
merge_no_cross(self, other) ==
    LET total == (self.count + other.count) % U64Mod
        factor == F64Div(F64Mul(F64FromU64(self.count), F64FromU64(other.count)),
                         F64FromU64(total))
        left_delta == F64Sub(self.left_mean, other.left_mean)
        right_delta == F64Sub(self.right_mean, other.right_mean)
        co_moments == F64Add(self.co_moments,
                             other.co_moments)
    IN  IF total = 0 THEN self
        ELSE IF large_and_comparable(self.count, other.count)
        THEN State(total, co_moments,
                   F64Div(F64Add(left_sum(self), left_sum(other)), F64FromU64(total)),
                   F64Div(F64Add(right_sum(self), right_sum(other)), F64FromU64(total)))
        ELSE State(total, co_moments,
                   F64Add(other.left_mean,
                          F64Div(F64Mul(left_delta, F64FromU64(self.count)),
                                 F64FromU64(total))),
                   F64Add(other.right_mean,
                          F64Div(F64Mul(right_delta, F64FromU64(self.count)),
                                 F64FromU64(total))))

merge_right_from_left(self, other) ==
    LET total == (self.count + other.count) % U64Mod
        factor == F64Div(F64Mul(F64FromU64(self.count), F64FromU64(other.count)),
                         F64FromU64(total))
        left_delta == F64Sub(self.left_mean, other.left_mean)
        right_delta == F64Sub(self.right_mean, other.right_mean)
        co_moments == F64Add(self.co_moments,
                             F64Add(other.co_moments,
                                    F64Mul(F64Mul(left_delta, right_delta), factor)))
    IN  IF total = 0 THEN self
        ELSE IF large_and_comparable(self.count, other.count)
        THEN State(total, co_moments,
                   F64Div(F64Add(left_sum(self), left_sum(other)), F64FromU64(total)),
                   F64Div(F64Add(right_sum(self), right_sum(other)), F64FromU64(total)))
        ELSE State(total, co_moments,
                   F64Add(other.left_mean,
                          F64Div(F64Mul(left_delta, F64FromU64(self.count)),
                                 F64FromU64(total))),
                   F64Add(other.right_mean,
                          F64Div(F64Mul(left_delta, F64FromU64(self.count)),
                                 F64FromU64(total))))

merge_unguarded(self, other) ==
    LET total == (self.count + other.count) % U64Mod
        factor == F64Div(F64Mul(F64FromU64(self.count), F64FromU64(other.count)),
                         F64FromU64(total))
        left_delta == F64Sub(self.left_mean, other.left_mean)
        right_delta == F64Sub(self.right_mean, other.right_mean)
        co_moments == F64Add(self.co_moments,
                             F64Add(other.co_moments,
                                    F64Mul(F64Mul(left_delta, right_delta), factor)))
    IN  IF large_and_comparable(self.count, other.count)
        THEN State(total, co_moments,
                   F64Div(F64Add(left_sum(self), left_sum(other)), F64FromU64(total)),
                   F64Div(F64Add(right_sum(self), right_sum(other)), F64FromU64(total)))
        ELSE State(total, co_moments,
                   F64Add(other.left_mean,
                          F64Div(F64Mul(left_delta, F64FromU64(self.count)),
                                 F64FromU64(total))),
                   F64Add(other.right_mean,
                          F64Div(F64Mul(right_delta, F64FromU64(self.count)),
                                 F64FromU64(total))))

(* merge with a fault: the sums of the large branch both taken of self *)
merge_sums_by_self(self, other) ==
    LET total == (self.count + other.count) % U64Mod
        factor == F64Div(F64Mul(F64FromU64(self.count), F64FromU64(other.count)),
                         F64FromU64(total))
        left_delta == F64Sub(self.left_mean, other.left_mean)
        right_delta == F64Sub(self.right_mean, other.right_mean)
        co_moments == F64Add(self.co_moments,
                             F64Add(other.co_moments,
                                    F64Mul(F64Mul(left_delta, right_delta), factor)))
    IN  IF total = 0 THEN self
        ELSE IF large_and_comparable(self.count, other.count)
        THEN State(total, co_moments,
                   F64Div(F64Add(left_sum(self), left_sum(self)), F64FromU64(total)),
                   F64Div(F64Add(right_sum(self), right_sum(self)), F64FromU64(total)))
        ELSE State(total, co_moments,
                   F64Add(other.left_mean,
                          F64Div(F64Mul(left_delta, F64FromU64(self.count)),
                                 F64FromU64(total))),
                   F64Add(other.right_mean,
                          F64Div(F64Mul(right_delta, F64FromU64(self.count)),
                                 F64FromU64(total))))

merge(self, other) ==
    LET total == (self.count + other.count) % U64Mod
        factor == F64Div(F64Mul(F64FromU64(self.count), F64FromU64(other.count)),
                         F64FromU64(total))
        left_delta == F64Sub(self.left_mean, other.left_mean)
        right_delta == F64Sub(self.right_mean, other.right_mean)
        co_moments == F64Add(self.co_moments,
                             F64Add(other.co_moments,
                                    F64Mul(F64Mul(left_delta, right_delta), factor)))
    IN  IF total = 0 THEN self
        ELSE IF large_and_comparable(self.count, other.count)
        THEN State(total, co_moments,
                   F64Div(F64Add(left_sum(self), left_sum(other)), F64FromU64(total)),
                   F64Div(F64Add(right_sum(self), right_sum(other)), F64FromU64(total)))
        ELSE State(total, co_moments,
                   F64Add(other.left_mean,
                          F64Div(F64Mul(left_delta, F64FromU64(self.count)),
                                 F64FromU64(total))),
                   F64Add(other.right_mean,
                          F64Div(F64Mul(right_delta, F64FromU64(self.count)),
                                 F64FromU64(total))))

(* AggregateCovarianceSampleImpl::apply, AggregateCovariancePopulationImpl::apply *)
(* apply with a fault: the sample covariance divided by count *)
sample_apply_by_count(state) ==
    IF state.count < 2 THEN F64Infinity
    ELSE F64Div(state.co_moments, F64FromU64(state.count))

sample_apply(state) ==
    IF state.count < 2 THEN F64Infinity
    ELSE F64Div(state.co_moments, F64FromU64(state.count - 1))

population_apply(state) ==
    IF state.count = 0 THEN F64Infinity
    ELSE IF state.count = 1 THEN F64Zero
    ELSE F64Div(state.co_moments, F64FromU64(state.count))

Variants == {"sample", "population"}

apply(variant, state) ==
    IF variant = "sample" THEN sample_apply(state) ELSE population_apply(state)


---------------------------------------------------------------------------
(* Columns: a cell is an Option, None for a null row.  A batch is a         *)
(* sequence of rows <<left cell, right cell>>; the values are small         *)
(* integers, converted by as_() to f64.                                     *)

None == <<>>
Some(v) == <<v>>

as_f64(v) == F64Lit(v, 1)

Left(batch) == [i \in 1..Len(batch) |-> batch[i][1]]
Right(batch) == [i \in 1..Len(batch) |-> batch[i][2]]

null_count(col) == Cardinality({i \in 1..Len(col) : col[i] = None})

(* What a call that loops over rows leaves: the arena, whether it panicked  *)
(* on an overflow (checked build), whether a count overflowed at all.       *)
Outcome(m, p, o) == [mem |-> m, panicked |-> p, overflowed |-> o]

(* left.zip(right).zip(places).for_each(...): rows with a null on either    *)
(* side are skipped, the others go to add() of the state at                 *)
(* places[i] + offset.  chk: the build checks overflow.                     *)
RECURSIVE for_each_add(_, _, _, _, _, _, _)
for_each_add(chk, m, places, offset, left, right, o) ==
    IF left = <<>> THEN Outcome(m, FALSE, o)
    ELSE LET addr == Head(places) + offset
             rest(mm, oo) == for_each_add(chk, mm, Tail(places), offset,
                                          Tail(left), Tail(right), oo)
         IN  IF Head(left) = None \/ Head(right) = None THEN rest(m, o)
             ELSE IF add_overflows(m[addr]) /\ chk THEN Outcome(m, TRUE, TRUE)
             ELSE rest([m EXCEPT ![addr] = add(m[addr], as_f64(Head(left)[1]),
                                               as_f64(Head(right)[1]))],
                       o \/ add_overflows(m[addr]))

(* AggregateFunction::accumulate *)
accumulate(chk, m, place, left, right) ==
    IF null_count(left) = Len(left) \/ null_count(right) = Len(right)
    THEN Outcome(m, FALSE, FALSE)
    ELSE for_each_add(chk, m, [i \in 1..Len(left) |-> place], 0, left, right, FALSE)

(* accumulate_keys with a fault: the offset is not added to the places *)
accumulate_keys_no_offset(chk, m, places, offset, left, right) ==
    IF null_count(left) = Len(left) \/ null_count(right) = Len(right)
    THEN Outcome(m, FALSE, FALSE)
    ELSE for_each_add(chk, m, places, 0, left, right, FALSE)

(* AggregateFunction::accumulate_keys *)
accumulate_keys(chk, m, places, offset, left, right) ==
    IF null_count(left) = Len(left) \/ null_count(right) = Len(right)
    THEN Outcome(m, FALSE, FALSE)
    ELSE for_each_add(chk, m, places, offset, left, right, FALSE)

---------------------------------------------------------------------------
(* The wire format (common_io): every field fixed-width little-endian,      *)
(* a u64 as its value, an f64 as its bit pattern; reading past the end of   *)
(* the input is an error.                                                   *)

RECURSIVE to_le_bytes(_, _)
to_le_bytes(n, len) ==
    IF len = 0 THEN <<>> ELSE <<n % ByteMod>> \o to_le_bytes(n \div ByteMod, len - 1)

RECURSIVE from_le_bytes(_)
from_le_bytes(bytes) ==
    IF bytes = <<>> THEN 0 ELSE Head(bytes) + ByteMod * from_le_bytes(Tail(bytes))

to_bits(f) == (f.sign * 2 ^ ExpBits + f.exp) * 2 ^ MantBits + f.man

from_bits(n) ==
    F(n \div 2 ^ (WordBits - 1), (n \div 2 ^ MantBits) % 2 ^ ExpBits, n % 2 ^ MantBits)

u64_serialize_to_buf(v, writer) == writer \o to_le_bytes(v, FieldBytes)
f64_serialize_to_buf(v, writer) == writer \o to_le_bytes(to_bits(v), FieldBytes)

(* One field read: ok is FALSE when the input is too short; rest is what    *)
(* is left of the input.                                                    *)
Read(ok, value, rest) == [ok |-> ok, value |-> value, rest |-> rest]

u64_deserialize(reader) ==
    IF Len(reader) < FieldBytes THEN Read(FALSE, 0, reader)
    ELSE Read(TRUE, from_le_bytes(SubSeq(reader, 1, FieldBytes)),
              SubSeq(reader, FieldBytes + 1, Len(reader)))

f64_deserialize(reader) ==
    LET r == u64_deserialize(reader)
    IN  IF r.ok THEN Read(TRUE, from_bits(r.value), r.rest) ELSE r

(* serialize with a fault: the two means written in the other order *)
serialize_swapped(state, writer) ==
    f64_serialize_to_buf(state.left_mean,
        f64_serialize_to_buf(state.right_mean,
            f64_serialize_to_buf(state.co_moments,
                u64_serialize_to_buf(state.count, writer))))

(* AggregateFunction::serialize *)
serialize(state, writer) ==
    f64_serialize_to_buf(state.right_mean,
        f64_serialize_to_buf(state.left_mean,
            f64_serialize_to_buf(state.co_moments,
                u64_serialize_to_buf(state.count, writer))))

(* AggregateFunction::deserialize: each field is assigned as it is read,    *)
(* so an error leaves the fields read before it overwritten.                *)
Decoded(ok, state) == [ok |-> ok, state |-> state]

(* deserialize with a fault: the fields the input does not hold are zero *)
deserialize_zero_fill(state, reader) ==
    LET c == u64_deserialize(reader)
        co == f64_deserialize(c.rest)
        l == f64_deserialize(co.rest)
        r == f64_deserialize(l.rest)
        zero_or(x) == IF x.ok THEN x.value ELSE FZero(0)
    IN  Decoded(TRUE, State(c.value, zero_or(co), zero_or(l), zero_or(r)))

deserialize(state, reader) ==
    LET c == u64_deserialize(reader)
        co == f64_deserialize(c.rest)
        l == f64_deserialize(co.rest)
        r == f64_deserialize(l.rest)
        s1 == [state EXCEPT !.count = c.value]
        s2 == [s1 EXCEPT !.co_moments = co.value]
        s3 == [s2 EXCEPT !.left_mean = l.value]
        s4 == [s3 EXCEPT !.right_mean = r.value]
    IN  IF ~c.ok THEN Decoded(FALSE, state)
        ELSE IF ~co.ok THEN Decoded(FALSE, s1)
        ELSE IF ~l.ok THEN Decoded(FALSE, s2)
        ELSE IF ~r.ok THEN Decoded(FALSE, s3)
        ELSE Decoded(TRUE, s4)

---------------------------------------------------------------------------
(* The arena: two groups of two aggregate states each.  A state lives at    *)
(* group address + offset; state_layout() gives the size of one state.      *)

StateSize == 4 * FieldBytes
Groups == {0, 2 * StateSize}
Offsets == {0, StateSize}
Addrs == {g + o : g \in Groups, o \in Offsets}

(* AggregateFunction::init_state *)
init_state == State(0, F64Zero, F64Zero, F64Zero)

(* The rows a call can be given: a batch is a run of consecutive rows of    *)
(* Table, at most MaxRows long.                                             *)
RowVals == {<<Some(1), Some(2)>>, <<Some(2), Some(1)>>, <<Some(3), Some(4)>>}
Table == << <<Some(1), Some(2)>>, <<Some(2), Some(4)>>, <<None, Some(2)>>, <<Some(1), None>> >>
Batches ==
    {SubSeq(Table, w[1], w[1] + w[2] - 1) :
        w \in {v \in (1..Len(Table)) \X (0..MaxRows) : v[1] + v[2] - 1 <= Len(Table)}}

(* Buffers that arrive from other nodes: the serialized state after three   *)
(* rows (3, 3), a state with the largest count, a buffer of 0xff bytes.     *)
Remote(c, l) == State(c, FZero(0), FRatio(l, 1), FRatio(l, 1))
Foreign ==
    {serialize(Remote(3, 3), <<>>), serialize(Remote(U64Max, 1), <<>>),
     [i \in 1..StateSize |-> ByteMod - 1]}

(* Where a transfer can be cut short: before the first byte, inside a      *)
(* field, between two fields, before the last byte.                         *)
CutLens == {0, FieldBytes + FieldBytes \div 2, 2 * FieldBytes, StateSize - 1}

---------------------------------------------------------------------------
(* The calls.  Every action is one whole call of the AggregateFunction      *)
(* implementation.  A run makes MaxOps calls and stops at a panic; call     *)
(* and pre record the last call of the run, so a property of one call is    *)
(* an invariant over the states that end a run.  Any call can end a run,    *)
(* and any state reachable in fewer calls is where it can start: a call     *)
(* with an empty batch changes nothing.                                     *)

NoCall == [op |-> "none", args |-> <<>>, value |-> None]
Call(op, args, value) == [op |-> op, args |-> args, value |-> value]

Running == ~exact /\ ops < MaxOps /\ status # "panic"

Step(c) ==
    /\ ops' = ops + 1
    /\ call' = IF ops + 1 = MaxOps THEN c ELSE call
    /\ pre' = IF ops + 1 = MaxOps THEN mem ELSE pre
    /\ UNCHANGED <<exact, input, pos, role, obs>>

(* The builds a call that overflows a count can be running in, and what     *)
(* the run knows of its build after the call.                               *)
Builds(overflowed) ==
    IF ~overflowed THEN {FALSE}
    ELSE IF build = "any" THEN BOOLEAN ELSE {build = "checked"}

Reveal(overflowed, chk) ==
    IF ~overflowed THEN build ELSE IF chk THEN "checked" ELSE "wrapping"

(* How a call that counts rows ends: wrapped is its outcome in a build     *)
(* that wraps, trapped in a build that checks.                              *)
Land(wrapped, trapped) ==
    \E chk \in Builds(wrapped.overflowed) :
        /\ mem' = IF chk THEN trapped.mem ELSE wrapped.mem
        /\ status' = IF chk THEN "panic" ELSE "ok"
        /\ build' = Reveal(wrapped.overflowed, chk)

InitState(place) ==
    /\ Running
    /\ mem' = [mem EXCEPT ![place] = init_state]
    /\ status' = "ok"
    /\ Step(Call("init_state", <<place>>, None))
    /\ UNCHANGED <<build, wire>>

Accumulate(place, batch) ==
    /\ Running
    /\ Land(accumulate(FALSE, mem, place, Left(batch), Right(batch)),
            accumulate(TRUE, mem, place, Left(batch), Right(batch)))
    /\ Step(Call("accumulate", <<place, batch>>, None))
    /\ UNCHANGED wire

AccumulateKeys(places, offset, batch) ==
    /\ Running
    /\ Land(accumulate_keys(FALSE, mem, places, offset, Left(batch), Right(batch)),
            accumulate_keys(TRUE, mem, places, offset, Left(batch), Right(batch)))
    /\ Step(Call("accumulate_keys", <<places, offset, batch>>, None))
    /\ UNCHANGED wire

Serialize(place) ==
    /\ Running
    /\ wire' = serialize(mem[place], <<>>)
    /\ status' = "ok"
    /\ Step(Call("serialize", <<place>>, None))
    /\ UNCHANGED <<build, mem>>

(* deserialize from reader into the state at place *)
DeserializeFrom(place, reader, from) ==
    LET d == deserialize(mem[place], reader)
    IN  /\ Running
        /\ mem' = [mem EXCEPT ![place] = d.state]
        /\ status' = IF d.ok THEN "ok" ELSE "err"
        /\ Step(Call("deserialize", <<place, reader, from>>, None))
        /\ UNCHANGED <<build, wire>>

(* ... the buffer serialize wrote on this node *)
Deserialize(place) ==
    /\ wire # <<>>
    /\ DeserializeFrom(place, wire, "wire")

(* ... a buffer of another node *)
DeserializeForeign(place, bytes) ==
    DeserializeFrom(place, bytes, "foreign")

(* ... the first k bytes of a buffer *)
DeserializeTruncated(place, bytes, k) ==
    /\ k < Len(bytes)
    /\ DeserializeFrom(place, SubSeq(bytes, 1, k), "truncated")

Merge(place, rhs) ==
    /\ Running
    /\ place # rhs
    /\ Land(Outcome([mem EXCEPT ![place] = merge(mem[place], mem[rhs])], FALSE,
                    merge_overflows(mem[place], mem[rhs])),
            Outcome(mem, TRUE, TRUE))
    /\ Step(Call("merge", <<place, rhs>>, None))
    /\ UNCHANGED wire

MergeResult(place, variant) ==
    /\ Running
    /\ status' = "ok"
    /\ Step(Call("merge_result", <<place, variant>>, Some(apply(variant, mem[place]))))
    /\ UNCHANGED <<build, mem, wire>>

---------------------------------------------------------------------------
(* Split-and-merge runs, in exact arithmetic: the rows of input are         *)
(* accumulated, in order and batch by batch, into states of their own,      *)
(* and the partial states are merged in any order.                          *)

Inputs == UNION {[1..n -> RowVals] : n \in 0..MaxInput}

SplitAccumulate(place, n) ==
    LET batch == SubSeq(input, pos + 1, pos + n)
        fresh == /\ role[place] = "fresh"
                 /\ \A a \in Addrs : role[a] = "fresh" => place <= a
        open == role[place] = "partial" /\ pos \in obs[place] /\ n > 0
    IN  /\ exact
        /\ pos + n <= Len(input)
        /\ fresh \/ open
        /\ mem' = accumulate(FALSE, mem, place, Left(batch), Right(batch)).mem
        /\ obs' = [obs EXCEPT ![place] = @ \cup ((pos + 1)..(pos + n))]
        /\ role' = [role EXCEPT ![place] = "partial"]
        /\ pos' = pos + n
        /\ UNCHANGED <<exact, build, wire, status, ops, call, pre, input>>

SplitMerge(place, rhs) ==
    /\ exact
    /\ place # rhs
    /\ role[place] = "partial" /\ role[rhs] = "partial"
    /\ mem' = [mem EXCEPT ![place] = merge(mem[place], mem[rhs])]
    /\ obs' = [obs EXCEPT ![place] = @ \cup obs[rhs]]
    /\ role' = [role EXCEPT ![rhs] = "retired"]
    /\ UNCHANGED <<exact, build, wire, status, ops, call, pre, input, pos>>

---------------------------------------------------------------------------
(* Merges of two sampled states, in exact arithmetic: the states rows can   *)
(* leave, with counts on both sides of the bounds of large_and_comparable   *)
(* (10000 < min, 1000 * (max - min) < max).  A state of count 1 has         *)
(* co_moments 0.                                                            *)

Counts == {1, 2, 10000, 10001, 10011, 10012}

Samples ==
    {init_state} \cup
    {State(c, F64Lit(co, 1), F64Lit(l, 1), F64Lit(r, 1)) :
        c \in Counts \ {1}, co \in {0, 2}, l \in 1..MaxMean, r \in 1..MaxMean}
    \cup
    {State(1, F64Zero, F64Lit(l, 1), F64Lit(r, 1)) :
        l \in 1..MaxMean, r \in 1..MaxMean}

MergePair(place, rhs) ==
    /\ exact
    /\ ops = 0
    /\ place # rhs
    /\ mem' = [mem EXCEPT ![place] = merge(mem[place], mem[rhs])]
    /\ status' = "ok"
    /\ ops' = 1
    /\ call' = Call("merge", <<place, rhs>>, None)
    /\ pre' = mem
    /\ UNCHANGED <<exact, build, wire, input, pos, role, obs>>

---------------------------------------------------------------------------
(* The specifications. *)

InitWith(ex, in) ==
    /\ exact = ex
    /\ build = "any"
    /\ mem = [a \in Addrs |-> init_state]
    /\ wire = <<>>
    /\ status = "ok"
    /\ ops = 0
    /\ call = NoCall
    /\ pre = mem
    /\ input = in
    /\ pos = 0
    /\ role = [a \in Addrs |-> "fresh"]
    /\ obs = [a \in Addrs |-> {}]

Init == InitWith(FALSE, <<>>)

InitSplit == \E in \in Inputs : InitWith(TRUE, in)

InitPair ==
    /\ exact = TRUE
    /\ build = "any"
    /\ \E s, t \in Samples :
         mem = [a \in Addrs |-> IF a = 0 THEN s ELSE IF a = StateSize THEN t
                                ELSE init_state]
    /\ wire = <<>>
    /\ status = "ok"
    /\ ops = 0
    /\ call = NoCall
    /\ pre = mem
    /\ input = <<>>
    /\ pos = 0
    /\ role = [a \in Addrs |-> "fresh"]
    /\ obs = [a \in Addrs |-> {}]

Local ==
    \/ \E place \in Addrs : InitState(place)
    \/ \E place \in Addrs, batch \in Batches : Accumulate(place, batch)
    \/ \E batch \in Batches, offset \in Offsets :
         \E places \in [1..Len(batch) -> Groups] : AccumulateKeys(places, offset, batch)
    \/ \E place \in Addrs : Serialize(place)
    \/ \E place \in Addrs : Deserialize(place)
    \/ \E place, rhs \in Addrs : Merge(place, rhs)
    \/ \E place \in Addrs, variant \in Variants : MergeResult(place, variant)

Next ==
    \/ Local
    \/ \E place \in Addrs, bytes \in Foreign : DeserializeForeign(place, bytes)
    \/ \E place \in Addrs, bytes \in Foreign \cup {wire}, k \in CutLens :
         DeserializeTruncated(place, bytes, k)

NextSplit ==
    \/ \E place \in Addrs, n \in 0..MaxRows : SplitAccumulate(place, n)
    \/ \E place, rhs \in Addrs : SplitMerge(place, rhs)

(* Every call, every input. *)
Spec == Init /\ [][Next]_vars

(* Only the calls of one node and the buffers it wrote itself. *)
SpecLocal == Init /\ [][Local]_vars

(* Split-and-merge runs in exact arithmetic. *)
SpecSplit == InitSplit /\ [][NextSplit]_vars

NextPair == \E place, rhs \in Addrs : MergePair(place, rhs)

(* One merge of two sampled states in exact arithmetic. *)
SpecPair == InitPair /\ [][NextPair]_vars

---------------------------------------------------------------------------
(* What the calls are compared with. *)

both_present(row) == row[1] # None /\ row[2] # None

(* add on every row of rows, in order *)
RECURSIVE fold_add(_, _)
fold_add(state, rows) ==
    IF rows = <<>> THEN state
    ELSE fold_add(add(state, as_f64(Head(rows)[1][1]), as_f64(Head(rows)[2][1])),
                  Tail(rows))

(* init_state followed by add on every row *)
single_pass(rows) == fold_add(init_state, rows)

(* The both-present rows of a keyed batch whose key is key, in row order *)
RECURSIVE rows_at(_, _, _)
rows_at(places, batch, key) ==
    IF batch = <<>> THEN <<>>
    ELSE (IF Head(places) = key /\ both_present(Head(batch)) THEN <<Head(batch)>> ELSE <<>>)
            \o rows_at(Tail(places), Tail(batch), key)

RECURSIVE ascending(_)
ascending(S) ==
    IF S = {} THEN <<>>
    ELSE LET m == CHOOSE x \in S : \A y \in S : x <= y
         IN  <<m>> \o ascending(S \ {m})

(* The rows of input with the indices in S, in the order of input *)
rows_of(S) == [k \in 1..Cardinality(S) |-> input[ascending(S)[k]]]

(* Two states that agree in every field and in both results *)
same_result(s, t) == s = t /\ \A v \in Variants : apply(v, s) = apply(v, t)

(* bytes is the four fields of state, in the order count, co_moments,       *)
(* left_mean, right_mean                                                    *)
field(bytes, i) == from_le_bytes(SubSeq(bytes, (i - 1) * FieldBytes + 1, i * FieldBytes))

encodes(bytes, state) ==
    /\ Len(bytes) = StateSize
    /\ field(bytes, 1) = state.count
    /\ from_bits(field(bytes, 2)) = state.co_moments
    /\ from_bits(field(bytes, 3)) = state.left_mean
    /\ from_bits(field(bytes, 4)) = state.right_mean

(* Equal as f64 values *)
f64_eq(a, b) == ~IsNaN(a) /\ ~IsNaN(b) /\ (a = b \/ (IsZero(a) /\ IsZero(b)))

finite(state) ==
    \A f \in {state.co_moments, state.left_mean, state.right_mean} : f.exp # ExpMax

unchanged_but(places) == \A a \in Addrs \ places : mem[a] = pre[a]

---------------------------------------------------------------------------
(* Properties.  Those of one call are stated of the call that ends the run. *)

(* C1: in exact arithmetic, a state that was accumulated from contiguous    *)
(* pieces of the input, each piece in a state of its own, the states        *)
(* merged in any order and grouping, has the count, co_moments, left_mean,  *)
(* right_mean and merge_result (sample and population) of the state that    *)
(* init_state and add on the same rows in order give.                       *)
C1_SplitMergeEqualsSinglePass ==
    \A a \in Addrs :
        role[a] = "partial" => same_result(mem[a], single_pass(rows_of(obs[a])))

(* The rows (1,2), (2,1), (3,4) cut into four pieces, one of them empty,    *)
(* and merged into one state.                                               *)
C1_Witness ==
    /\ input = << <<Some(1), Some(2)>>, <<Some(2), Some(1)>>, <<Some(3), Some(4)>> >>
    /\ Cardinality({b \in Addrs : role[b] = "retired"}) = 3
    /\ \E a \in Addrs :
         /\ role[a] = "partial"
         /\ obs[a] = {1, 2, 3}
         /\ mem[a].count = 3
         /\ mem[a].co_moments = F64Lit(2, 1)
         /\ apply("sample", mem[a]) = F64Lit(1, 1)

(* C2: accumulate applies add once, in row order, for each row with both    *)
(* values present and for no other row: it returns Ok, the count            *)
(* afterwards is the count before plus the number of such rows, and a       *)
(* batch without such a row changes nothing.                                *)
accumulated(place, rows) ==
    /\ status = "ok"
    /\ mem[place].count = pre[place].count + Len(rows)
    /\ mem[place] = fold_add(pre[place], rows)
    /\ unchanged_but({place})

C2_AccumulateAddsPresentRows ==
    call.op = "accumulate"
        => accumulated(call.args[1], SelectSeq(call.args[2], both_present))

(* C3: an accumulate_keys that returns has applied to every state the       *)
(* both-present rows whose place plus offset is its address, one add each   *)
(* in row order; the states no such row addresses are as they were.         *)
C3_KeysUpdateAddressedStates ==
    (call.op = "accumulate_keys" /\ status = "ok")
        => \A a \in Addrs :
             mem[a] = fold_add(pre[a], rows_at(call.args[1], call.args[3],
                                               a - call.args[2]))

(* Two rows of two groups added at the second offset, a state at the        *)
(* first offset holding rows already.                                       *)
C3_Witness ==
    /\ call.op = "accumulate_keys"
    /\ status = "ok"
    /\ call.args[2] = StateSize
    /\ \A g \in Groups :
         /\ mem[g + StateSize].count = pre[g + StateSize].count + 1
         /\ mem[g] = pre[g]
    /\ \E g \in Groups : pre[g].count > 0

(* C4: serialize writes the four fields in the order count, co_moments,     *)
(* left_mean, right_mean, StateSize bytes, and leaves the state as it was;  *)
(* deserialize of these bytes into any state returns Ok and makes the four  *)
(* fields those of the serialized state; deserialize of any StateSize       *)
(* bytes returns Ok with the fields the bytes hold.                         *)
C4_SerializeRoundTrip ==
    /\ call.op = "serialize"
         => /\ status = "ok"
            /\ mem = pre
            /\ encodes(wire, pre[call.args[1]])
            /\ \A b \in Addrs :
                 deserialize(mem[b], wire) = Decoded(TRUE, pre[call.args[1]])
    /\ (call.op = "deserialize" /\ Len(call.args[2]) = StateSize)
         => /\ status = "ok"
            /\ encodes(call.args[2], mem[call.args[1]])
            /\ unchanged_but({call.args[1]})

(* A state with one row serialized while another state holds another row. *)
C4_Witness ==
    /\ call.op = "serialize"
    /\ mem[call.args[1]].count = 1
    /\ \E b \in Addrs : mem[b].count = 1 /\ mem[b] # mem[call.args[1]]

(* C5: deserialize of fewer bytes than the four fields take is an error,    *)
(* at whichever byte the input ends.                                        *)
C5_TruncatedIsError ==
    (call.op = "deserialize" /\ Len(call.args[2]) < StateSize)
        => /\ status = "err"
           /\ \A k \in 0..Len(call.args[2]) :
                ~deserialize(pre[call.args[1]], SubSeq(call.args[2], 1, k)).ok

(* An input that ends after the second field. *)
C5_Witness ==
    /\ call.op = "deserialize"
    /\ call.args[3] = "truncated"
    /\ Len(call.args[2]) = 2 * FieldBytes
    /\ status = "err"

(* C6: merging an empty state, as init_state leaves it, into a state X      *)
(* with finite fields leaves the count of X and the values of its           *)
(* co_moments, left_mean and right_mean as they were, and the empty state   *)
(* too.                                                                     *)
same_values(s, t) ==
    /\ s.count = t.count
    /\ f64_eq(s.co_moments, t.co_moments)
    /\ f64_eq(s.left_mean, t.left_mean)
    /\ f64_eq(s.right_mean, t.right_mean)

C6_MergeEmptyChangesNothing ==
    (/\ call.op = "merge"
     /\ status = "ok"
     /\ pre[call.args[2]] = init_state
     /\ finite(pre[call.args[1]]))
        => /\ same_values(mem[call.args[1]], pre[call.args[1]])
           /\ mem[call.args[2]] = pre[call.args[2]]

(* C7: merge_result returns Ok and a value and changes no state; the        *)
(* sample value is +infinity for a count below 2 and co_moments /           *)
(* (count - 1) otherwise, the population value +infinity for count 0,       *)
(* 0.0 for count 1 and co_moments / count otherwise.                        *)
expected_result(variant, count, co_moments) ==
    IF variant = "sample"
    THEN (IF count < 2 THEN F64Infinity
          ELSE F64Div(co_moments, F64FromU64(count - 1)))
    ELSE (IF count = 0 THEN F64Infinity
          ELSE IF count = 1 THEN F64Zero
          ELSE F64Div(co_moments, F64FromU64(count)))

C7_MergeResultValue ==
    call.op = "merge_result"
        => /\ status = "ok"
           /\ mem = pre
           /\ call.value = Some(expected_result(call.args[2], pre[call.args[1]].count,
                                                 pre[call.args[1]].co_moments))

(* The sample covariance of the rows (1,2), (2,4). *)
C7_Witness ==
    /\ call.op = "merge_result"
    /\ call.args[2] = "sample"
    /\ pre[call.args[1]].count = 2
    /\ pre[call.args[1]].co_moments = F64Lit(1, 1)
    /\ call.value = Some(F64Lit(1, 1))

(* C8: no call panics and no count overflows; after merge the count is the  *)
(* sum of the two counts.                                                   *)
C8_CountsNeverOverflow ==
    /\ status # "panic"
    /\ build = "any"
    /\ call.op = "merge"
         => mem[call.args[1]].count
              = pre[call.args[1]].count + pre[call.args[2]].count

(* C9: on one node, with the buffers serialize wrote on it, a state of      *)
(* count 0 has co_moments, left_mean and right_mean 0.0.                    *)
C9_EmptyStateIsZero ==
    \A a \in Addrs :
        mem[a].count = 0
            => /\ IsZero(mem[a].co_moments)
               /\ IsZero(mem[a].left_mean)
               /\ IsZero(mem[a].right_mean)

(* Two empty states merged while another state holds a row. *)
C9_Witness ==
    /\ call.op = "merge"
    /\ status = "ok"
    /\ pre[call.args[1]].count = 0
    /\ pre[call.args[2]].count = 0
    /\ mem[call.args[1]].count = 0
    /\ \E a \in Addrs : mem[a].count > 0

(* C10: a merge whose total count is not 0 and does not overflow, the       *)
(* counts not large and comparable, sets right_mean to other.right_mean     *)
(* + right_delta * self.count / total and left_mean to other.left_mean      *)
(* + left_delta * self.count / total, the deltas taken of the means         *)
(* before the merge.                                                        *)
incremental(self, other) ==
    /\ call.op = "merge"
    /\ status = "ok"
    /\ self.count + other.count # 0
    /\ self.count + other.count <= U64Max
    /\ ~large_and_comparable(self.count, other.count)

moved_mean(mean, delta, weight, total) ==
    F64Add(mean, F64Div(F64Mul(delta, weight), F64FromU64(total)))

merged_means(self, other, now, right_weight) ==
    /\ now.left_mean = moved_mean(other.left_mean,
                                  F64Sub(self.left_mean, other.left_mean),
                                  F64FromU64(self.count), self.count + other.count)
    /\ now.right_mean = moved_mean(other.right_mean,
                                   F64Sub(self.right_mean, other.right_mean),
                                   right_weight, self.count + other.count)

C10_RightMeanWeighedByCount ==
    incremental(pre[call.args[1]], pre[call.args[2]])
        => merged_means(pre[call.args[1]], pre[call.args[2]], mem[call.args[1]],
                        F64FromU64(pre[call.args[1]].count))

(* C10 as the specification words it: right_delta * right_delta / total *)
C10_RightMeanWeighedByDelta ==
    incremental(pre[call.args[1]], pre[call.args[2]])
        => merged_means(pre[call.args[1]], pre[call.args[2]], mem[call.args[1]],
                        F64Sub(pre[call.args[1]].right_mean,
                               pre[call.args[2]].right_mean))

(* The state of the row (2,4) merged with the state of the row (1,2). *)
C10_Witness ==
    /\ incremental(pre[call.args[1]], pre[call.args[2]])
    /\ pre[call.args[1]].count = 1
    /\ pre[call.args[2]].count = 1
    /\ pre[call.args[1]].right_mean = F64Lit(4, 1)
    /\ pre[call.args[2]].right_mean = F64Lit(2, 1)
    /\ mem[call.args[1]].right_mean = F64Lit(3, 1)
    /\ mem[call.args[1]].left_mean = F64Lit(3, 2)

---------------------------------------------------------------------------
(* The two branches of merge, in exact arithmetic. *)

(* (c1 * m1 + c2 * m2) / (c1 + c2), of rationals m1 and m2 *)
weighted_mean(c1, m1, c2, m2) ==
    Rat(c1 * m1.num * m2.den + c2 * m2.num * m1.den,
        (c1 + c2) * m1.den * m2.den)

(* the mean of the branch of large counts, from the two sums *)
summed_mean(self_sum, other_sum, total) ==
    F64Div(F64Add(self_sum, other_sum), F64FromU64(total))

(* both counts above 10000 and 1 - min / max below 1 / 1000, in integers *)
large_and_close(a, b) ==
    /\ a > 10000
    /\ b > 10000
    /\ 1000 * (Max(a, b) - Min(a, b)) < Max(a, b)

(* the co-moment of the union: the sum of both and the cross term *)
cross_moments(self, other) ==
    F64Add(F64Add(self.co_moments, other.co_moments),
           F64Div(F64Mul(F64Mul(F64Sub(self.left_mean, other.left_mean),
                                F64Sub(self.right_mean, other.right_mean)),
                         F64FromU64(self.count * other.count)),
                  F64FromU64(self.count + other.count)))

branch_means(self, other, total, left, right) ==
    /\ summed_mean(left_sum(self), left_sum(other), total) = left
    /\ summed_mean(right_sum(self), right_sum(other), total) = right
    /\ moved_mean(other.left_mean, F64Sub(self.left_mean, other.left_mean),
                  F64FromU64(self.count), total) = left
    /\ moved_mean(other.right_mean, F64Sub(self.right_mean, other.right_mean),
                  F64FromU64(self.count), total) = right

branches_agree(self, other, now) ==
    /\ large_and_comparable(self.count, other.count)
           <=> large_and_close(self.count, other.count)
    /\ branch_means(self, other, self.count + other.count,
                    now.left_mean, now.right_mean)
    /\ now.left_mean = weighted_mean(self.count, self.left_mean,
                                     other.count, other.left_mean)
    /\ now.right_mean = weighted_mean(self.count, self.right_mean,
                                      other.count, other.right_mean)
    /\ now.co_moments = cross_moments(self, other)
    /\ now.count = self.count + other.count

merged_pair(self, other) ==
    /\ exact
    /\ call.op = "merge"
    /\ self.count + other.count > 0

(* C11: in exact arithmetic, for any two states whose counts do not sum to *)
(* 0, merge leaves each mean equal to the count-weighted mean of the two   *)
(* means, whichever branch it takes: the branch of the sums, taken iff both *)
(* counts exceed 10000 and 1 - min/max < 0.001, and the incremental branch *)
(* compute the same two means; count is the total and co_moments the sum   *)
(* of both plus the cross term, in either branch.                          *)
C11_BranchesAgree ==
    merged_pair(pre[call.args[1]], pre[call.args[2]])
        => branches_agree(pre[call.args[1]], pre[call.args[2]],
                          mem[call.args[1]])

(* A merge that took the branch of the sums: counts 10001 and 10011 with   *)
(* unlike means.                                                           *)
C11_Witness ==
    /\ merged_pair(pre[call.args[1]], pre[call.args[2]])
    /\ large_and_comparable(pre[call.args[1]].count, pre[call.args[2]].count)
    /\ pre[call.args[1]].count = 10001
    /\ pre[call.args[2]].count = 10011
    /\ pre[call.args[1]].left_mean # pre[call.args[2]].left_mean
    /\ pre[call.args[1]].right_mean # pre[call.args[2]].right_mean
    /\ mem[call.args[1]].count = 20012
====
